---- MODULE Spec2Model ----
(***************************************************************************)
(* A model of the anyrl training core: reward aggregation (rewards.go),    *)
(* the clipped surrogate objective and the PPO trainer (anypg/ppo.go) and  *)
(* the training program's two goroutines (the Pong example's main).       *)
(*                                                                         *)
(* Numbers.  The code computes on floats.  The model computes on exact     *)
(* rationals: a reward is an integer, a scaled value is a pair <<n, d>>    *)
(* standing for n/d, ratios and epsilon are counted in tenths.             *)
(*                                                                         *)
(* Tapes.  A lazyseq.Tape is the sequence of its batches; a batch is a     *)
(* record [Present, Packed] as anyseq.Batch: Present has one flag per      *)
(* lane, Packed one value per present lane, in lane order.                 *)
(***************************************************************************)
EXTENDS Integers, Sequences, FiniteSets, TLC

VARIABLES
    rewards,      \* SpecRewards: the rewards tape handed to the functions
    factor,       \* SpecRewards: DiscountedRewards' factor, <<n, d>>
    rewOp,        \* SpecRewards: the function called last
    rewOut,       \* SpecRewards: the value that function returned
    objEps,       \* SpecObjective: PPOObjective's eps, in tenths
    objRats,      \* SpecObjective: its rats, one ratio per action, in tenths
    objAdvs,      \* SpecObjective: its advs, one advantage per ratio
    objOp,        \* SpecObjective: "none", or "PPOObjective" once called
    objOut,       \* SpecObjective: the vector it returned, in tenths
    ppo,          \* Spec: the PPO struct's fields
    theta,        \* Spec: the value of the networks' parameter
    rollout,      \* Spec: the RolloutSet: Inputs, Actions, AgentOuts, Rewards
    adv,          \* Spec: the advantage tape of the batch (<<>>: none yet)
    ppoOp,        \* Spec: the operation performed last
    runOut,       \* Spec: what the last Run returned: grad, terms
    trace,        \* Spec: what the last Advantage or Run did: the calls of
                  \*   the collaborators, what they received, the tapes read
    advReads,     \* Spec: the advantage tapes read by Run since Advantage
    trainPc,      \* SpecMain: where the training goroutine is
    mainPc,       \* SpecMain: where the main goroutine is
    trainLock,    \* SpecMain: the goroutine holding trainLock, or "none"
    steps,        \* SpecMain: the steps gathered for the current batch
    batchIdx,     \* SpecMain: the index of the current batch
    params,       \* SpecMain: per policy parameter, the gradients added
    saved,        \* SpecMain: per policy parameter, the value written to
                  \*   the save file (-1: not written)
    sigPhase,     \* SpecMain: trainPc when Ctrl+C arrived ("none": not yet)
    sigBatch      \* SpecMain: batchIdx when Ctrl+C arrived

rewVars == <<rewards, factor, rewOp, rewOut>>
objVars == <<objEps, objRats, objAdvs, objOp, objOut>>
ppoVars == <<ppo, theta, rollout, adv, ppoOp, runOut, trace, advReads>>
mainVars == <<trainPc, mainPc, trainLock, steps, batchIdx, params, saved,
              sigPhase, sigBatch>>
vars == <<rewVars, objVars, ppoVars, mainVars>>

----------------------------------------------------------------------------
(* Each specification below runs one part of the program and holds the    *)
(* variables of the other parts at these values.                          *)

RewardsIdle ==
    /\ rewards = <<>>
    /\ factor = <<1, 1>>
    /\ rewOp = "none"
    /\ rewOut = <<>>

ObjectiveIdle ==
    /\ objEps = 0
    /\ objRats = <<>>
    /\ objAdvs = <<>>
    /\ objOp = "none"
    /\ objOut = <<>>

NoTrace ==
    [Base |-> 0, Actor |-> 0, Critic |-> 0, LogProb |-> 0, Regularizer |-> 0,
     actorIn |-> <<>>, criticIn |-> <<>>, read |-> {}, advRead |-> <<>>,
     obj |-> <<>>]

NoRun == [grad |-> <<>>, terms |-> <<>>]

TrainerIdle ==
    /\ ppo = <<>>
    /\ theta = 0
    /\ rollout = <<>>
    /\ adv = <<>>
    /\ ppoOp = "none"
    /\ runOut = NoRun
    /\ trace = NoTrace
    /\ advReads = {}

ProgramIdle ==
    /\ trainPc = "idle"
    /\ mainPc = "idle"
    /\ trainLock = "none"
    /\ steps = 0
    /\ batchIdx = 0
    /\ params = <<0, 0>>
    /\ saved = <<-1, -1>>
    /\ sigPhase = "none"
    /\ sigBatch = 0

----------------------------------------------------------------------------
(* Bounds of the model.                                                    *)

MaxLanes == 2
MaxSteps == 3
MaxActions == 2
MaxRollLanes == 2
MaxRollSteps == 2
MaxBatches == 2

\* The rewards a lane can collect in one step.
RewardVals == {1, 2}

\* DiscountedRewards' factors, as <<numerator, denominator>>: 1/2 and 1.
Factors == {<<1, 2>>, <<1, 1>>}

----------------------------------------------------------------------------
(* anyseq.Batch and its packing, as rewards.go uses them.                  *)

RECURSIVE SumSeq(_)
SumSeq(s) == IF s = <<>> THEN 0 ELSE Head(s) + SumSeq(Tail(s))

RECURSIVE Pow(_, _)
Pow(b, e) == IF e = 0 THEN 1 ELSE b * Pow(b, e - 1)

MaxOf(S) == CHOOSE x \in S : \A y \in S : y <= x

\* The number of present lanes among the first n lanes.
NumPresentUpTo(present, n) == Cardinality({i \in 1..n : present[i]})

NumPresent(present) == NumPresentUpTo(present, Len(present))

\* The lane that holds the k-th packed value.
LaneOfPacked(present, k) ==
    CHOOSE i \in 1..Len(present) : present[i] /\ NumPresentUpTo(present, i) = k

\* batch.Expand(present): the batch on the wider presence map "present",
\* with 0 for every lane of "present" the batch does not hold.
Expand(batch, present) ==
    [Present |-> present,
     Packed  |-> [k \in 1..NumPresent(present) |->
                    LET lane == LaneOfPacked(present, k)
                    IN  IF batch.Present[lane]
                        THEN batch.Packed[NumPresentUpTo(batch.Present, lane)]
                        ELSE 0]]

\* batch.Reduce(present): the batch restricted to the lanes of "present".
Reduce(batch, present) ==
    [Present |-> present,
     Packed  |-> [k \in 1..NumPresent(present) |->
                    batch.Packed[NumPresentUpTo(batch.Present,
                                                LaneOfPacked(present, k))]]]

\* The tape of a list of lanes, each lane the list of its rewards: step t
\* holds the lanes that are at least t long.
TapeOfLanes(lanes) ==
    LET last == IF lanes = <<>> THEN 0
                 ELSE MaxOf({Len(lanes[l]) : l \in 1..Len(lanes)})
        pres(t) == [l \in 1..Len(lanes) |-> t <= Len(lanes[l])]
    IN  [t \in 1..last |->
            [Present |-> pres(t),
             Packed  |-> [k \in 1..NumPresent(pres(t)) |->
                            lanes[LaneOfPacked(pres(t), k)][t]]]]

SeqsUpTo(S, lo, hi) == UNION {[1..n -> S] : n \in lo..hi}

\* Every lane is an episode of at least one step.
LaneLists == SeqsUpTo(SeqsUpTo(RewardVals, 1, MaxSteps), 0, MaxLanes)

\* The tape of the lanes [[1,2,3],[1,1]].
ExampleLanes == <<(<<1, 2, 3>>), (<<1, 1>>)>>

RewardTapes == {TapeOfLanes(l) : l \in LaneLists \cup {ExampleLanes}}

----------------------------------------------------------------------------
(* anypg/ppo.go: the clipped surrogate objective.                          *)

\* one := c.MakeNumeric(1): 1.0 in tenths, the unit of ratios and epsilon.
one == 10

\* DefaultPPOEpsilon = 0.2, in tenths.
DefaultPPOEpsilon == 2

Min(a, b) == IF a <= b THEN a ELSE b
Max(a, b) == IF a >= b THEN a ELSE b

\* anydiff.ClipRange(x, lo, hi) on one component.
ClipRange(x, lo, hi) == IF x < lo THEN lo ELSE IF x > hi THEN hi ELSE x

\* anydiff.ElemMin of the two products, on one component.
ElemMin(a, b) == Min(a, b)

\* The objective with the larger of the two products taken.
PPOObjectiveElemMax(eps, rats, advs) ==
    [i \in 1..Len(rats) |->
        LET clipped == ClipRange(rats[i], one - eps, one + eps)
        IN  Max(clipped * advs[i], rats[i] * advs[i])]

\* PPOObjective(eps, rats, advs): one component per action, in tenths of the
\* advantages' unit.
PPOObjective(eps, rats, advs) ==
    [i \in 1..Len(rats) |->
        LET clipped == ClipRange(rats[i], one - eps, one + eps)
        IN  ElemMin(clipped * advs[i], rats[i] * advs[i])]

----------------------------------------------------------------------------
(* SpecObjective: PPOObjective applied to bounded inputs.                  *)

\* eps: 0, 0.2, 0.5 and 1.5.
EpsVals == {0, DefaultPPOEpsilon, 5, 15}

\* Ratios: 0, 0.5, 0.8, 1, 1.2, 2 and 3.
RatioVals == {0, 5, 8, 10, 12, 20, 30}

AdvVals == {-2, 0, 3}

InitObjective ==
    /\ objEps \in EpsVals
    /\ \E n \in 0..MaxActions :
        /\ objRats \in [1..n -> RatioVals]
        /\ objAdvs \in [1..n -> AdvVals]
    /\ objOp = "none"
    /\ objOut = <<>>
    /\ RewardsIdle
    /\ TrainerIdle
    /\ ProgramIdle

CallPPOObjective ==
    /\ objOp' = "PPOObjective"
    /\ objOut' = PPOObjective(objEps, objRats, objAdvs)
    /\ UNCHANGED <<objEps, objRats, objAdvs, rewVars, ppoVars, mainVars>>

NextObjective == CallPPOObjective

SpecObjective == InitObjective /\ [][NextObjective]_vars

\* C1: PPOObjective returns, for each index, the smaller of the clipped and
\* the unclipped ratio times the advantage: a non-negative advantage caps the
\* ratio at 1+eps, a negative one floors it at 1-eps, a ratio inside
\* [1-eps, 1+eps] is used as it is, and a ratio of 1 returns the advantage.
C1_ClippedObjective ==
    objOp = "PPOObjective" =>
        /\ Len(objOut) = Len(objRats)
        /\ \A i \in 1..Len(objRats) :
            LET r  == objRats[i]
                a  == objAdvs[i]
                lo == one - objEps
                hi == one + objEps
                c  == IF r < lo THEN lo ELSE IF r > hi THEN hi ELSE r
            IN  /\ objOut[i] <= c * a
                /\ objOut[i] <= r * a
                /\ objOut[i] \in {c * a, r * a}
                /\ (a >= 0 => objOut[i] = (IF r > hi THEN hi ELSE r) * a)
                /\ (a < 0 => objOut[i] = (IF r < lo THEN lo ELSE r) * a)
                /\ ((lo <= r /\ r <= hi) => objOut[i] = r * a)
                /\ (r = one => objOut[i] = one * a)

\* C1 witness: one call clipped a ratio above 1+eps on a positive advantage
\* and returned the advantage itself for a ratio of 1.
C1_Witness ==
    /\ objOp = "PPOObjective"
    /\ \E i, j \in 1..Len(objRats) :
        /\ objRats[i] > one + objEps
        /\ objAdvs[i] > 0
        /\ objOut[i] = (one + objEps) * objAdvs[i]
        /\ objRats[j] = one
        /\ objAdvs[j] < 0
        /\ objOut[j] = one * objAdvs[j]

----------------------------------------------------------------------------
(* rewards.go                                                              *)

\* The loop with batch.Packed added as it is, not expanded to sum.Present.
RECURSIVE rewardSumLoopNoExpand(_, _)
rewardSumLoopNoExpand(sum, batches) ==
    IF batches = <<>> THEN sum
    ELSE LET batch == Head(batches)
             next  == IF sum = <<>>
                      THEN <<[Present |-> batch.Present, Packed |-> batch.Packed]>>
                      ELSE <<[Present |-> sum[1].Present,
                              Packed  |-> [k \in 1..Len(sum[1].Packed) |->
                                  sum[1].Packed[k]
                                    + IF k <= Len(batch.Packed)
                                      THEN batch.Packed[k] ELSE 0]]>>
         IN  rewardSumLoopNoExpand(next, Tail(batches))

\* A *anyseq.Batch that may be nil: <<>> is nil, <<b>> is the batch b.
RECURSIVE rewardSumLoop(_, _)
rewardSumLoop(sum, batches) ==
    IF batches = <<>> THEN sum
    ELSE LET batch == Head(batches)
             next  == IF sum = <<>>
                      THEN <<[Present |-> batch.Present, Packed |-> batch.Packed]>>
                      ELSE LET add == Expand(batch, sum[1].Present).Packed
                           IN  <<[Present |-> sum[1].Present,
                                  Packed  |-> [k \in 1..Len(sum[1].Packed) |->
                                                  sum[1].Packed[k] + add[k]]]>>
         IN  rewardSumLoop(next, Tail(batches))

rewardSum(tape) == rewardSumLoop(<<>>, tape)

TotalRewards(tape) ==
    LET sum == rewardSum(tape)
    IN  IF sum = <<>> THEN <<>> ELSE sum[1].Packed

\* MeanReward: 1 / float64(total.Len()) is +Inf for an empty vector (a float
\* division by zero does not panic), scaling the empty vector by it changes
\* nothing, and the sum of the empty vector is 0.
MeanReward(tape) ==
    LET total == TotalRewards(tape)
        n     == Len(total)
    IN  [divisor   |-> n,
         scale     |-> IF n = 0 THEN "+Inf" ELSE "finite",
         value     |-> IF n = 0 THEN <<0, 1>> ELSE <<SumSeq(total), n>>,
         signalled |-> FALSE]

\* The batch of step i (from 0) scaled by factor^i; f is <<n, d>>.
ScaledBatch(in, f, i) ==
    LET scaled == Reduce(in, in.Present)
    IN  [Present |-> scaled.Present,
         Packed  |-> [k \in 1..Len(scaled.Packed) |->
                        <<scaled.Packed[k] * Pow(f[1], i), Pow(f[2], i)>>]]

\* A discounted return instead: every later step of the lane added in.
ReturnBatch(tape, f, t) ==
    [Present |-> tape[t].Present,
     Packed  |-> [k \in 1..Len(tape[t].Packed) |->
        LET lane == LaneOfPacked(tape[t].Present, k)
            last == MaxOf({u \in t..Len(tape) : tape[u].Present[lane]})
            term(u) == tape[u].Packed[NumPresentUpTo(tape[u].Present, lane)]
                         * Pow(f[1], u - t) * Pow(f[2], last - u)
        IN  <<SumSeq([j \in 1..(last - t + 1) |-> term(t + j - 1)]),
              Pow(f[2], last - t)>>]]

DiscountedRewardsAsReturns(tape, f) ==
    [batches |-> [t \in 1..Len(tape) |-> ReturnBatch(tape, f, t)],
     closed  |-> TRUE]

DiscountedRewards(tape, f) ==
    [batches |-> [t \in 1..Len(tape) |-> ScaledBatch(tape[t], f, t - 1)],
     closed  |-> TRUE]

----------------------------------------------------------------------------
(* SpecRewards: the reward functions applied to a closed rewards tape.     *)
(* rewOp is the function called last and rewOut the value it returned.     *)

InitRewards ==
    /\ rewards \in RewardTapes
    /\ factor \in Factors
    /\ rewOp = "none"
    /\ rewOut = <<>>
    /\ ObjectiveIdle
    /\ TrainerIdle
    /\ ProgramIdle

CallTotalRewards ==
    /\ rewOp' = "TotalRewards"
    /\ rewOut' = TotalRewards(rewards)
    /\ UNCHANGED <<rewards, factor, objVars, ppoVars, mainVars>>

CallMeanReward ==
    /\ rewOp' = "MeanReward"
    /\ rewOut' = MeanReward(rewards)
    /\ UNCHANGED <<rewards, factor, objVars, ppoVars, mainVars>>

CallDiscountedRewards ==
    /\ rewOp' = "DiscountedRewards"
    /\ rewOut' = DiscountedRewards(rewards, factor)
    /\ UNCHANGED <<rewards, factor, objVars, ppoVars, mainVars>>

NextRewards == CallTotalRewards \/ CallMeanReward \/ CallDiscountedRewards

SpecRewards == InitRewards /\ [][NextRewards]_vars

----------------------------------------------------------------------------
(* Reward aggregation: the properties.                                     *)

NumLanes(tape) == IF tape = <<>> THEN 0 ELSE Len(tape[1].Present)

\* The reward lane l collects at step t: 0 when the lane is absent.
LaneReward(tape, l, t) ==
    IF tape[t].Present[l]
    THEN tape[t].Packed[NumPresentUpTo(tape[t].Present, l)]
    ELSE 0

LaneTotal(tape, l) == SumSeq([t \in 1..Len(tape) |-> LaneReward(tape, l, t)])

\* C2: TotalRewards returns one sum per lane, the sum of the lane's rewards
\* over the steps at which it is present, and the empty vector for a tape
\* with zero steps.
C2_TotalRewardsPerLane ==
    rewOp = "TotalRewards" =>
        /\ Len(rewOut) = NumLanes(rewards)
        /\ \A l \in 1..NumLanes(rewards) : rewOut[l] = LaneTotal(rewards, l)
        /\ (Len(rewards) = 0 => rewOut = <<>>)

\* C2 witness: the lanes [[1,2,3],[1,1]] summed to [6,2].
C2_Witness ==
    /\ rewOp = "TotalRewards"
    /\ rewards = TapeOfLanes(ExampleLanes)
    /\ ~rewards[3].Present[2]
    /\ rewOut = <<6, 2>>

\* C3: DiscountedRewards returns a closed tape with the steps and presence
\* masks of its input, every value of step i (from 0) being the input value
\* times factor^i, with no later step added in.
C3_DiscountedPerStepScale ==
    rewOp = "DiscountedRewards" =>
        /\ rewOut.closed
        /\ Len(rewOut.batches) = Len(rewards)
        /\ \A t \in 1..Len(rewards) :
            /\ rewOut.batches[t].Present = rewards[t].Present
            /\ Len(rewOut.batches[t].Packed) = Len(rewards[t].Packed)
            /\ \A k \in 1..Len(rewards[t].Packed) :
                LET out == rewOut.batches[t].Packed[k]
                    i   == t - 1
                IN  out[1] * Pow(factor[2], i)
                        = rewards[t].Packed[k] * Pow(factor[1], i) * out[2]

\* C3 witness: three steps [r0,r1,r2] under factor 1/2 give [r0, r1/2, r2/4].
C3_Witness ==
    /\ rewOp = "DiscountedRewards"
    /\ factor = <<1, 2>>
    /\ Len(rewards) = 3
    /\ rewOut.batches[1].Packed[1] = <<rewards[1].Packed[1], 1>>
    /\ rewOut.batches[2].Packed[1] = <<rewards[2].Packed[1], 2>>
    /\ rewOut.batches[3].Packed[1] = <<rewards[3].Packed[1], 4>>

\* C4: on a tape with zero steps or zero lanes MeanReward does not divide by
\* a lane count of 0 and does not return a zero without signalling it.
C4_EmptyTapeHandled ==
    (rewOp = "MeanReward" /\ NumLanes(rewards) = 0) =>
        /\ rewOut.divisor # 0
        /\ (rewOut.value[1] = 0 => rewOut.signalled)

----------------------------------------------------------------------------
(* anypg/ppo.go: the PPO trainer.                                          *)
(*                                                                         *)
(* Rewards, critic outputs, advantages and critic targets are counted in   *)
(* units of 1/ValueUnit, so that a discount of 1/2 per step stays exact.   *)
(* The three terms of the objective are counted in one common unit,        *)
(* 1/(one * ValueUnit * ValueUnit).                                        *)

ValueUnit == Pow(4, MaxRollSteps)

\* x scaled by the rational q = <<n, d>>.
ScaleBy(x, q) == (x * q[1]) \div q[2]

\* The value a tape holds for a lane at a step: 0 past the lane's end.
ValueAt(tape, lane, t) ==
    IF t <= Len(tape) /\ tape[t].Present[lane]
    THEN tape[t].Packed[NumPresentUpTo(tape[t].Present, lane)]
    ELSE 0

\* The collaborators: the agent's networks as functions of the one parameter
\* th, the action space and the regularizer.
BaseFn(x) == x + 1
ActorFn(feature, th) == (feature + th) % 2
CriticFn(feature, th) == th * feature * ValueUnit

\* Base, Actor and Critic on a tape: every value mapped, the presence kept.
BaseTape(tape) ==
    [t \in 1..Len(tape) |->
        [Present |-> tape[t].Present,
         Packed  |-> [k \in 1..Len(tape[t].Packed) |->
                        BaseFn(tape[t].Packed[k])]]]

ActorTape(tape, th) ==
    [t \in 1..Len(tape) |->
        [Present |-> tape[t].Present,
         Packed  |-> [k \in 1..Len(tape[t].Packed) |->
                        ActorFn(tape[t].Packed[k], th)]]]

CriticTape(tape, th) ==
    [t \in 1..Len(tape) |->
        [Present |-> tape[t].Present,
         Packed  |-> [k \in 1..Len(tape[t].Packed) |->
                        CriticFn(tape[t].Packed[k], th)]]]

\* ActionSpace.LogProb, in bits: the action the parameters favour has
\* log-probability 0, the other one -1.
LogProb(out, action) == IF out = action THEN 0 ELSE -1

\* anydiff.Exp of a difference of log-probabilities, in tenths.
Exp(diff) == CASE diff = -1 -> 5 [] diff = 0 -> one [] diff = 1 -> 20

\* Regularizer.Regularize on one lane.
Regularize(out) == 1 + out

\* QJudger.JudgeActions: the discounted cumulative reward of every step.
RECURSIVE QValue(_, _, _, _)
QValue(rews, lane, t, discount) ==
    IF t > Len(rews) \/ ~rews[t].Present[lane] THEN 0
    ELSE ValueAt(rews, lane, t) * ValueUnit
            + ScaleBy(QValue(rews, lane, t + 1, discount), discount)

QJudgerJudgeActions(discount, r) ==
    [t \in 1..Len(r.Rewards) |->
        [Present |-> r.Rewards[t].Present,
         Packed  |-> [k \in 1..Len(r.Rewards[t].Packed) |->
            QValue(r.Rewards, LaneOfPacked(r.Rewards[t].Present, k), t,
                   discount)]]]

\* GAEJudger.JudgeActions: A_t = delta_t + discount * lambda * A_{t+1} with
\* delta_t = reward_t + discount * V(s_{t+1}) - V(s_t), along the span where
\* the lane is present, V being 0 after the lane's last step.
RECURSIVE GAEValue(_, _, _, _, _, _)
GAEValue(rews, values, lane, t, discount, lambda) ==
    IF t > Len(rews) \/ ~rews[t].Present[lane] THEN 0
    ELSE LET delta == ValueAt(rews, lane, t) * ValueUnit
                        + ScaleBy(ValueAt(values, lane, t + 1), discount)
                        - ValueAt(values, lane, t)
         IN  delta + ScaleBy(ScaleBy(GAEValue(rews, values, lane, t + 1,
                                              discount, lambda),
                                     discount), lambda)

GAEJudgerJudgeActions(discount, lambda, values, r) ==
    [t \in 1..Len(r.Rewards) |->
        [Present |-> r.Rewards[t].Present,
         Packed  |-> [k \in 1..Len(r.Rewards[t].Packed) |->
            GAEValue(r.Rewards, values,
                     LaneOfPacked(r.Rewards[t].Present, k), t,
                     discount, lambda)]]]

\* applyBaseIn: the identity if Base is nil; calls counts the calls of Base.
applyBaseIn(p, in) ==
    IF p.BaseNil THEN [out |-> in, calls |-> 0]
    ELSE [out |-> BaseTape(in), calls |-> 1]

applyBase(p, r) == applyBaseIn(p, r.Inputs)

\* Advantage: the GAE estimator of the batch under the current critic.
Advantage(p, th, r) ==
    LET base   == applyBaseIn(p, r.Inputs)
        values == CriticTape(base.out, th)
    IN  [tape  |-> GAEJudgerJudgeActions(p.Discount, p.Lambda, values, r),
         trace |-> [Base |-> base.calls, Actor |-> 0, Critic |-> 1,
                    LogProb |-> 0, Regularizer |-> 0,
                    actorIn |-> <<>>, criticIn |-> base.out,
                    read |-> {"Inputs", "Rewards"}, advRead |-> <<>>,
                    obj |-> <<>>]]

\* runActorCritic with PoolBase ignored: Base applied once per head.
runActorCriticUnpooled(p, th, r) ==
    LET forActor  == applyBase(p, r)
        forCritic == applyBase(p, r)
    IN  [actorIn   |-> forActor.out,
         criticIn  |-> forCritic.out,
         actorOut  |-> ActorTape(forActor.out, th),
         criticOut |-> CriticTape(forCritic.out, th),
         Base |-> forActor.calls + forCritic.calls, Actor |-> 1, Critic |-> 1]

\* runActorCritic: the outputs of the actor and the critic, which the caller
\* hands to f, with what each head received and the calls made.
runActorCritic(p, th, r) ==
    IF p.PoolBase
    THEN LET baseOut == applyBase(p, r)
         IN  [actorIn   |-> baseOut.out,
              criticIn  |-> baseOut.out,
              actorOut  |-> ActorTape(baseOut.out, th),
              criticOut |-> CriticTape(baseOut.out, th),
              Base |-> baseOut.calls, Actor |-> 1, Critic |-> 1]
    ELSE LET forActor  == applyBase(p, r)
             forCritic == applyBase(p, r)
         IN  [actorIn   |-> forActor.out,
              criticIn  |-> forCritic.out,
              actorOut  |-> ActorTape(forActor.out, th),
              criticOut |-> CriticTape(forCritic.out, th),
              Base |-> forActor.calls + forCritic.calls,
              Actor |-> 1, Critic |-> 1]

clippedObjective(p, ratios, advantages) ==
    LET epsilon == IF p.Epsilon = 0 THEN DefaultPPOEpsilon ELSE p.Epsilon
    IN  PPOObjective(epsilon, ratios, advantages)

\* The function Run maps over the steps: for the n present lanes of one step,
\* the advantage, critic and regularization terms of each lane, mixed into
\* one 3-vector per lane.
StepObjective(p, n, actor, critic, oldOuts, actions, advantage, targets) ==
    LET ratios == [k \in 1..n |->
                      Exp(LogProb(actor[k], actions[k])
                            - LogProb(oldOuts[k], actions[k]))]
        advTerm == clippedObjective(p, ratios, advantage)
        criticCoeff == IF p.CriticWeight # 0 THEN -1 * p.CriticWeight ELSE -1
        criticTerm == [k \in 1..n |->
                          (critic[k] - targets[k]) * (critic[k] - targets[k])
                            * criticCoeff]
        regTerm == IF ~p.RegNil
                   THEN [k \in 1..n |-> Regularize(actor[k])]
                   ELSE [k \in 1..n |-> 0]
    IN  [k \in 1..n |->
            <<advTerm[k] * ValueUnit,
              criticTerm[k] * one,
              regTerm[k] * one * ValueUnit * ValueUnit>>]

\* lazyseq.Mean: the mean of the vectors of all steps and present lanes, each
\* component a pair <<sum, count>>.
Mean(obj) ==
    LET count == SumSeq([t \in 1..Len(obj) |-> Len(obj[t].Packed)])
        sum(i) == SumSeq([t \in 1..Len(obj) |->
                      SumSeq([k \in 1..Len(obj[t].Packed) |->
                                 obj[t].Packed[k][i]])])
    IN  [i \in 1..3 |-> <<sum(i), count>>]

\* The terms with the critic and advantage slices exchanged.
PPOTermsSwapped(objective) ==
    [MeanAdvantage      |-> objective[2],
     MeanCritic         |-> objective[1],
     MeanRegularization |-> objective[3]]

\* The PPOTerms of the objective vector: its three slices.
PPOTermsOf(objective) ==
    [MeanAdvantage      |-> objective[1],
     MeanCritic         |-> objective[2],
     MeanRegularization |-> objective[3]]

\* Run past the check of Params: the objective of the batch, its gradient
\* (kept as the upstream vector it was propagated from and the parameter
\* value it was taken at) and its terms.
runSteps(p, th, r, advTape) ==
    LET targetValues == QJudgerJudgeActions(p.Discount, r)
        ac  == runActorCritic(p, th, r)
        obj == [t \in 1..Len(ac.actorOut) |->
                  [Present |-> ac.actorOut[t].Present,
                   Packed  |-> StepObjective(p, Len(ac.actorOut[t].Packed),
                                  ac.actorOut[t].Packed,
                                  ac.criticOut[t].Packed,
                                  r.AgentOuts[t].Packed,
                                  r.Actions[t].Packed,
                                  advTape[t].Packed,
                                  targetValues[t].Packed)]]
        objective == Mean(obj)
    IN  [grad  |-> [v \in p.Params |-> [upstream |-> <<1, 1, 1>>, at |-> th]],
         terms |-> <<PPOTermsOf(objective)>>,
         trace |-> [Base |-> ac.Base, Actor |-> ac.Actor, Critic |-> ac.Critic,
                    LogProb |-> 2 * Len(obj),
                    Regularizer |-> IF p.RegNil THEN 0 ELSE Len(obj),
                    actorIn |-> ac.actorIn, criticIn |-> ac.criticIn,
                    read |-> {"Inputs", "Actions", "AgentOuts", "Rewards",
                              "adv"},
                    advRead |-> advTape,
                    obj |-> obj]]

\* Run without the check of Params.
RunUnchecked(p, th, r, advTape) == runSteps(p, th, r, advTape)

\* Run with the advantages estimated again from the current critic.
RunFreshAdvantage(p, th, r, advTape) ==
    IF p.Params = {}
    THEN [grad |-> <<>>, terms |-> <<>>, trace |-> NoTrace]
    ELSE runSteps(p, th, r, Advantage(p, th, r).tape)

\* Run: an empty gradient and nil terms (<<>>) if Params is empty.
Run(p, th, r, advTape) ==
    LET grad == [v \in p.Params |-> 0]
    IN  IF DOMAIN grad = {}
        THEN [grad |-> grad, terms |-> <<>>, trace |-> NoTrace]
        ELSE runSteps(p, th, r, advTape)

----------------------------------------------------------------------------
(* Spec: one batch of the trainer.  Advantage, then Run any number of      *)
(* times, the optimizer adding each gradient to the parameter in between.  *)
(* The batch was rolled out under the parameter's first value, 0.          *)

ThetaVals == {0, 1}

\* The optional fields of the PPO struct: all left at their zero value
\* (CriticWeight 1 and Epsilon 0.2 by default, no Regularizer), or all set.
\* Discount and Lambda are 1, or 1/2.
Optionals ==
    {[CriticWeight |-> 0, Epsilon |-> 0, RegNil |-> TRUE,
      Discount |-> <<1, 1>>, Lambda |-> <<1, 1>>],
     [CriticWeight |-> 2, Epsilon |-> 5, RegNil |-> FALSE,
      Discount |-> <<1, 2>>, Lambda |-> <<1, 2>>]}

PPOs ==
    {[Params |-> ps, BaseNil |-> bn, PoolBase |-> pb, RegNil |-> o.RegNil,
      CriticWeight |-> o.CriticWeight, Epsilon |-> o.Epsilon,
      Discount |-> o.Discount, Lambda |-> o.Lambda] :
        ps \in {{}, {"w"}}, bn \in BOOLEAN, pb \in BOOLEAN, o \in Optionals}

\* The episodes the environments produce: what lane sees, does and earns at
\* step t of an episode of the given kind.
EpisodeKinds == {1, 2}
EpisodeObs(kind, t) == IF kind = 1 THEN 1 ELSE t % 2
EpisodeAct(kind, t) == IF kind = 1 THEN 1 ELSE 0
EpisodeRew(kind, t) == IF kind = 1 THEN 1 ELSE 2 * (t % 2)

\* A lane is <<kind, length>>.
RolloutLanes ==
    UNION {[1..n -> EpisodeKinds \X (1..MaxRollSteps)] : n \in 1..MaxRollLanes}

\* The RolloutSet of the lanes, rolled out under the parameter th.
RolloutSetOf(lanes, p, th) ==
    LET tapeOf(F(_, _)) ==
            TapeOfLanes([l \in 1..Len(lanes) |->
                            [t \in 1..lanes[l][2] |-> F(lanes[l][1], t)]])
        inputs == tapeOf(EpisodeObs)
    IN  [Inputs    |-> inputs,
         Actions   |-> tapeOf(EpisodeAct),
         AgentOuts |-> ActorTape(applyBaseIn(p, inputs).out, th),
         Rewards   |-> tapeOf(EpisodeRew)]

Init ==
    /\ ppo \in PPOs
    /\ theta = 0
    /\ \E lanes \in RolloutLanes : rollout = RolloutSetOf(lanes, ppo, theta)
    /\ adv = <<>>
    /\ ppoOp = "none"
    /\ runOut = NoRun
    /\ trace = NoTrace
    /\ advReads = {}
    /\ RewardsIdle
    /\ ObjectiveIdle
    /\ ProgramIdle

CallAdvantage ==
    /\ LET res == Advantage(ppo, theta, rollout)
       IN  /\ adv' = res.tape
           /\ trace' = res.trace
    /\ ppoOp' = "Advantage"
    /\ advReads' = {}
    /\ UNCHANGED <<ppo, theta, rollout, runOut, rewVars, objVars, mainVars>>

\* Run takes the advantage tape Advantage computed for the batch.
CallRun ==
    /\ adv # <<>>
    /\ LET res == Run(ppo, theta, rollout, adv)
       IN  /\ runOut' = [grad |-> res.grad, terms |-> res.terms]
           /\ trace' = res.trace
           /\ advReads' = IF "adv" \in res.trace.read
                          THEN advReads \cup {res.trace.advRead}
                          ELSE advReads
    /\ ppoOp' = "Run"
    /\ UNCHANGED <<ppo, theta, rollout, adv, rewVars, objVars, mainVars>>

\* grad.AddToVars(): the optimizer's step on a gradient Run returned.
AddToVars ==
    /\ ppoOp = "Run"
    /\ DOMAIN runOut.grad # {}
    /\ \E th \in ThetaVals \ {theta} : theta' = th
    /\ ppoOp' = "AddToVars"
    /\ UNCHANGED <<ppo, rollout, adv, runOut, trace, advReads, rewVars,
                   objVars, mainVars>>

Next == CallAdvantage \/ CallRun \/ AddToVars

Spec == Init /\ [][Next]_vars

----------------------------------------------------------------------------
(* The PPO trainer: the properties.                                        *)

\* C5: Run with an empty Params returns an empty gradient and nil terms and
\* does nothing else: no call of Base, Actor, Critic, LogProb or the
\* regularizer, and no tape read.
C5_EmptyParamsNoWork ==
    (ppoOp = "Run" /\ ppo.Params = {}) =>
        /\ DOMAIN runOut.grad = {}
        /\ runOut.terms = <<>>
        /\ trace.Base = 0
        /\ trace.Actor = 0
        /\ trace.Critic = 0
        /\ trace.LogProb = 0
        /\ trace.Regularizer = 0
        /\ trace.read = {}

\* C5 witness: Run has returned on an empty Params, for a batch whose
\* advantage tape exists.
C5_Witness ==
    /\ ppoOp = "Run"
    /\ ppo.Params = {}
    /\ adv # <<>>
    /\ runOut.terms = <<>>

\* C6: every Run since the last Advantage read the advantage tape as
\* Advantage left it, whatever the parameter has become, and a Run changes
\* neither the advantage tape nor the four tapes of the RolloutSet.
C6_StaleAdvantage ==
    /\ [](advReads \subseteq {adv})
    /\ [][ppoOp' = "Run" => (adv' = adv /\ rollout' = rollout)]_vars

\* C6 witness: a Run read the advantage tape after the parameter changed so
\* that the critic would now estimate other advantages.
C6_Witness ==
    /\ ppoOp = "Run"
    /\ advReads = {adv}
    /\ trace.advRead = adv
    /\ Advantage(ppo, theta, rollout).tape # adv

\* The number of present entries of a tape, and the sum of component i of
\* the objective vectors Run computed.
NumEntries(tape) == SumSeq([t \in 1..Len(tape) |-> Len(tape[t].Packed)])

ObjSum(i) ==
    SumSeq([t \in 1..Len(trace.obj) |->
               SumSeq([k \in 1..Len(trace.obj[t].Packed) |->
                          trace.obj[t].Packed[k][i]])])

\* C7: the terms Run returns are, in this order, the means over the present
\* steps and lanes of the advantage, critic and regularization terms; their
\* sum is the mean of the per-entry objective; without a regularizer the
\* regularization mean is 0.
C7_TermsAreMeans ==
    (ppoOp = "Run" /\ ppo.Params # {}) =>
        /\ Len(runOut.terms) = 1
        /\ LET terms == runOut.terms[1]
               count == NumEntries(rollout.Inputs)
               whole == SumSeq([t \in 1..Len(trace.obj) |->
                           SumSeq([k \in 1..Len(trace.obj[t].Packed) |->
                              trace.obj[t].Packed[k][1]
                                + trace.obj[t].Packed[k][2]
                                + trace.obj[t].Packed[k][3]])])
           IN  /\ count > 0
               /\ NumEntries(trace.obj) = count
               /\ terms.MeanAdvantage = <<ObjSum(1), count>>
               /\ terms.MeanCritic = <<ObjSum(2), count>>
               /\ terms.MeanRegularization = <<ObjSum(3), count>>
               /\ terms.MeanCritic[1] <= 0
               /\ terms.MeanRegularization[1] >= 0
               /\ terms.MeanAdvantage[1] + terms.MeanCritic[1]
                     + terms.MeanRegularization[1] = whole
               /\ (ppo.RegNil => terms.MeanRegularization[1] = 0)

\* C7 witness: Run returned three non-zero means over a batch whose lanes
\* differ in length.
C7_Witness ==
    /\ ppoOp = "Run"
    /\ ppo.Params # {}
    /\ Len(rollout.Inputs) = 2
    /\ NumEntries(rollout.Inputs) = 3
    /\ runOut.terms[1].MeanAdvantage[1] # 0
    /\ runOut.terms[1].MeanCritic[1] < 0
    /\ runOut.terms[1].MeanRegularization[1] > 0
    /\ runOut.terms[1].MeanAdvantage[2] = 3

\* C10: one Run with a non-empty Params calls Actor and Critic once each and
\* Base once if PoolBase and twice if not; both heads receive Base's output
\* on the Inputs tape, and the Inputs tape itself if Base is nil.
C10_BaseCalls ==
    (ppoOp = "Run" /\ ppo.Params # {}) =>
        /\ trace.Actor = 1
        /\ trace.Critic = 1
        /\ (ppo.BaseNil =>
                /\ trace.Base = 0
                /\ trace.actorIn = rollout.Inputs
                /\ trace.criticIn = rollout.Inputs)
        /\ (~ppo.BaseNil =>
                /\ trace.Base = (IF ppo.PoolBase THEN 1 ELSE 2)
                /\ trace.actorIn = BaseTape(rollout.Inputs)
                /\ trace.criticIn = BaseTape(rollout.Inputs))

\* C10 witness: a Run with PoolBase applied a non-nil Base once and handed
\* its output, which is not the Inputs tape, to both heads.
C10_Witness ==
    /\ ppoOp = "Run"
    /\ ppo.Params # {}
    /\ ~ppo.BaseNil
    /\ ppo.PoolBase
    /\ trace.Base = 1
    /\ trace.actorIn # rollout.Inputs
    /\ trace.actorIn = trace.criticIn

----------------------------------------------------------------------------
(* SpecMain: the training program.  The training goroutine gathers         *)
(* rollouts, computes a gradient and adds it to the policy's parameters    *)
(* under trainLock, batch after batch; the main goroutine waits for        *)
(* Ctrl+C, takes trainLock, saves the policy and returns, which ends the   *)
(* process and the training goroutine with it.  A parameter's value is the *)
(* number of gradients added to it; the policy has two parameters, added   *)
(* to and written one after the other.                                     *)

BatchSteps == 100000

\* rollout.NumSteps() of one roller.Rollout.
RolloutSteps == {50000, 100000}

Running == mainPc # "exit"

InitMain ==
    /\ trainPc = "gather"
    /\ mainPc = "wait"
    /\ trainLock = "none"
    /\ steps = 0
    /\ batchIdx = 0
    /\ params = <<0, 0>>
    /\ saved = <<-1, -1>>
    /\ sigPhase = "none"
    /\ sigBatch = 0
    /\ RewardsIdle
    /\ ObjectiveIdle
    /\ TrainerIdle

\* for steps < BatchSteps { rollout := roller.Rollout(envs...); ... }
GatherRollout ==
    /\ Running
    /\ trainPc = "gather"
    /\ batchIdx < MaxBatches
    /\ steps < BatchSteps
    /\ \E n \in RolloutSteps : steps' = steps + n
    /\ UNCHANGED <<trainPc, mainPc, trainLock, batchIdx, params, saved,
                   sigPhase, sigBatch, rewVars, objVars, ppoVars>>

\* r := anyrl.PackRolloutSets(rollouts)
PackRollouts ==
    /\ Running
    /\ trainPc = "gather"
    /\ steps >= BatchSteps
    /\ trainPc' = "run"
    /\ UNCHANGED <<mainPc, trainLock, steps, batchIdx, params, saved,
                   sigPhase, sigBatch, rewVars, objVars, ppoVars>>

\* grad := trpo.Run(r)
TrpoRun ==
    /\ Running
    /\ trainPc = "run"
    /\ trainPc' = "lock"
    /\ UNCHANGED <<mainPc, trainLock, steps, batchIdx, params, saved,
                   sigPhase, sigBatch, rewVars, objVars, ppoVars>>

\* The training goroutine going on without taking trainLock.
TrainLockSkipped ==
    /\ Running
    /\ trainPc = "lock"
    /\ trainPc' = "add1"
    /\ UNCHANGED <<mainPc, trainLock, steps, batchIdx, params, saved,
                   sigPhase, sigBatch, rewVars, objVars, ppoVars>>

\* trainLock.Lock() in the training goroutine.
TrainLock ==
    /\ Running
    /\ trainPc = "lock"
    /\ trainLock = "none"
    /\ trainLock' = "train"
    /\ trainPc' = "add1"
    /\ UNCHANGED <<mainPc, steps, batchIdx, params, saved, sigPhase,
                   sigBatch, rewVars, objVars, ppoVars>>

\* grad.AddToVars(), the first parameter.
AddToVar1 ==
    /\ Running
    /\ trainPc = "add1"
    /\ params' = [params EXCEPT ![1] = @ + 1]
    /\ trainPc' = "add2"
    /\ UNCHANGED <<mainPc, trainLock, steps, batchIdx, saved, sigPhase,
                   sigBatch, rewVars, objVars, ppoVars>>

\* grad.AddToVars(), the second parameter.
AddToVar2 ==
    /\ Running
    /\ trainPc = "add2"
    /\ params' = [params EXCEPT ![2] = @ + 1]
    /\ trainPc' = "unlock"
    /\ UNCHANGED <<mainPc, trainLock, steps, batchIdx, saved, sigPhase,
                   sigBatch, rewVars, objVars, ppoVars>>

\* trainLock.Unlock(), and the loop's batchIdx++ with a fresh steps.
TrainUnlock ==
    /\ Running
    /\ trainPc = "unlock"
    /\ trainLock' = "none"
    /\ batchIdx' = batchIdx + 1
    /\ steps' = 0
    /\ trainPc' = "gather"
    /\ UNCHANGED <<mainPc, params, saved, sigPhase, sigBatch, rewVars,
                   objVars, ppoVars>>

\* <-rip.NewRIP().Chan(): Ctrl+C arrives.
Signal ==
    /\ mainPc = "wait"
    /\ mainPc' = "lock"
    /\ sigPhase' = trainPc
    /\ sigBatch' = batchIdx
    /\ UNCHANGED <<trainPc, trainLock, steps, batchIdx, params, saved,
                   rewVars, objVars, ppoVars>>

\* The main goroutine going on whoever holds trainLock.
MainLockNoWait ==
    /\ mainPc = "lock"
    /\ trainLock' = "main"
    /\ mainPc' = "save1"
    /\ UNCHANGED <<trainPc, steps, batchIdx, params, saved, sigPhase,
                   sigBatch, rewVars, objVars, ppoVars>>

\* trainLock.Lock() in the main goroutine.
MainLock ==
    /\ mainPc = "lock"
    /\ trainLock = "none"
    /\ trainLock' = "main"
    /\ mainPc' = "save1"
    /\ UNCHANGED <<trainPc, steps, batchIdx, params, saved, sigPhase,
                   sigBatch, rewVars, objVars, ppoVars>>

\* serializer.SaveAny(NetworkSaveFile, policy), the first parameter.
SaveVar1 ==
    /\ mainPc = "save1"
    /\ saved' = [saved EXCEPT ![1] = params[1]]
    /\ mainPc' = "save2"
    /\ UNCHANGED <<trainPc, trainLock, steps, batchIdx, params, sigPhase,
                   sigBatch, rewVars, objVars, ppoVars>>

\* serializer.SaveAny, the second parameter; main returns with trainLock
\* held and the process ends.
SaveVar2 ==
    /\ mainPc = "save2"
    /\ saved' = [saved EXCEPT ![2] = params[2]]
    /\ mainPc' = "exit"
    /\ UNCHANGED <<trainPc, trainLock, steps, batchIdx, params, sigPhase,
                   sigBatch, rewVars, objVars, ppoVars>>

NextMain ==
    \/ GatherRollout
    \/ PackRollouts
    \/ TrpoRun
    \/ TrainLock
    \/ AddToVar1
    \/ AddToVar2
    \/ TrainUnlock
    \/ Signal
    \/ MainLock
    \/ SaveVar1
    \/ SaveVar2

SpecMain == InitMain /\ [][NextMain]_vars

----------------------------------------------------------------------------
(* The training program: the properties.                                   *)

Applying == trainPc \in {"add1", "add2", "unlock"}
Saving == mainPc \in {"save1", "save2"}

\* C8: adding a gradient to the parameters and saving them never overlap:
\* each happens only with trainLock held by its goroutine, the training
\* goroutine holds it at no other point of its loop, and the file never
\* holds a partly applied update.
C8_UpdateAndSaveExclusive ==
    /\ ~(Applying /\ Saving)
    /\ (Applying => trainLock = "train")
    /\ (Saving => trainLock = "main")
    /\ (trainPc \in {"gather", "run", "lock"} => trainLock # "train")
    /\ (Saving => params[1] = params[2])
    /\ (mainPc = "exit" => saved[1] = saved[2])

\* C8 witness: the policy was saved after Ctrl+C arrived in the middle of a
\* gradient application.
C8_Witness ==
    /\ mainPc = "exit"
    /\ sigPhase = "add2"
    /\ saved = <<1, 1>>

\* C9 as stated: when Ctrl+C arrives while the training goroutine gathers
\* rollouts or computes the gradient of a batch, the policy is saved only
\* after that batch's gradient has been applied.
C9_WaitsForCurrentBatch ==
    (mainPc \in {"save1", "save2", "exit"}
        /\ sigPhase \in {"gather", "run"}) =>
            /\ batchIdx > sigBatch
            /\ params[1] > sigBatch
            /\ params[2] > sigBatch

\* C9 amended: the save waits only for a gradient application in progress.
\* When Ctrl+C arrives during one, the saved policy holds that batch's
\* gradient whole; when it arrives earlier in a batch, the saved policy
\* holds every batch finished before and need not hold the current one;
\* no gradient is ever saved in part.
C9_WaitsOnlyForApplication ==
    (mainPc \in {"save1", "save2", "exit"}) =>
        /\ params[1] = params[2]
        /\ (sigPhase \in {"add1", "add2", "unlock"} =>
                params[1] >= sigBatch + 1)
        /\ (sigPhase \in {"gather", "run", "lock"} =>
                params[1] >= sigBatch)
        /\ (mainPc = "exit" => saved = params)

\* C9 witness: Ctrl+C arrived while the gradient was being computed, and
\* the program saved and ended without that batch's gradient.
C9_Witness ==
    /\ mainPc = "exit"
    /\ sigPhase = "run"
    /\ trainPc = "run"
    /\ saved = <<sigBatch, sigBatch>>
    /\ batchIdx = sigBatch

====
